---- MODULE Spec2Model ----
(***************************************************************************)
(* useTemporalState: an undo/redo state hook.  src/src/index.ts holds two  *)
(* definitions of the hook:                                                *)
(*   "updater"  (lines 13-77):  set/undo/redo pass updater callbacks to    *)
(*              the React setters, and those callbacks call further        *)
(*              setters;                                                   *)
(*   "closure"  (lines 93-174): set/undo/redo compute the new values from  *)
(*              the past/present/future captured by the last render.       *)
(* Both are modelled, driven in lock step by the same calls.  The three    *)
(* useState cells are modelled with their update queues: a call enqueues   *)
(* updates, a render applies the queues in hook order (past, present,      *)
(* future).                                                                *)
(***************************************************************************)
EXTENDS Integers, Sequences, FiniteSets, TLC

\* ---------------------------------------------------------------- bounds
MaxVal == 2
MaxLimit == 2
MaxHist == 3
MaxBatch == 2
MaxFuture == 2

MaxPast == 3

Impl == {"updater", "closure"}
Vals == 0..MaxVal
Limits == 1..MaxLimit
\* shouldAddToHistory: the default (prev !== next), and the constant
\* predicates a caller may pass (the test suite passes () => false).
Preds == {"neq", "always", "never"}
\* updater functions a caller may hand to set
Fns == {"inc", "keep"}

VARIABLES
  limit,        \* options.limit
  pred,         \* options.shouldAddToHistory
  initialValue, \* the initialValue argument
  impls,        \* the implementations driven (both in lock step, or one)
  st,           \* per implementation: the rendered past, present, future
  q,            \* per implementation: the pending update queues of the three cells
  batch,        \* the calls made since the last render
  hist,         \* the calls made since construction (first MaxHist of them)
  last          \* the last call made

vars == <<limit, pred, initialValue, impls, st, q, batch, hist, last>>

\* ------------------------------------------------------------ arguments
NoArg == [fn |-> "none", v |-> 0]
Value(v) == [fn |-> "none", v |-> v]
Updater(f) == [fn |-> f, v |-> 0]
Args == {Value(v) : v \in Vals} \cup {Updater(f) : f \in Fns}

OpSet(a) == [op |-> "set", arg |-> a]
OpUndo == [op |-> "undo", arg |-> NoArg]
OpRedo == [op |-> "redo", arg |-> NoArg]
Ops == {OpSet(a) : a \in Args} \cup {OpUndo, OpRedo}

ApplyFn(f, x) ==
  IF f = "inc" THEN (x + 1) % (MaxVal + 1) ELSE x

\* typeof newState === "function" ? newState(prev) : newState
Resolve(newState, prev) ==
  IF newState.fn # "none" THEN ApplyFn(newState.fn, prev) ELSE newState.v

shouldAddToHistory(prev, next) ==
  CASE pred = "neq" -> prev # next
    [] pred = "always" -> TRUE
    [] pred = "never" -> FALSE

\* ------------------------------------------------------- Array.prototype
\* s.slice(start): a negative start counts from the end; -0 is 0.
SliceFrom(s, start) ==
  LET len == Len(s)
      k == IF start < 0
           THEN (IF len + start < 0 THEN 0 ELSE len + start)
           ELSE (IF start > len THEN len ELSE start)
  IN SubSeq(s, k + 1, len)

\* s.slice(0, -1)
SliceButLast(s) == SubSeq(s, 1, Len(s) - 1)

\* faulty variant: the trim forgotten
trimmedPastNone(updated) == updated

\* faulty variant: slice(0, limit) for slice(-limit): the newest entries are dropped
trimmedPastOldest(updated) ==
  IF Len(updated) > limit THEN SubSeq(updated, 1, limit) ELSE updated

\* updated.length > limit ? updated.slice(-limit) : updated
trimmedPast(updated) ==
  IF Len(updated) > limit THEN SliceFrom(updated, 0 - limit) ELSE updated

\* ------------------------------------------------------ queued updates
\* An update handed to a useState setter: a plain value ("val" for the
\* present cell, "seq" for past and future) or an updater callback.
Val(x) == [k |-> "val", x |-> x, s |-> <<>>, a |-> NoArg]
SeqVal(s) == [k |-> "seq", x |-> 0, s |-> s, a |-> NoArg]
Push(x) == [k |-> "push", x |-> x, s |-> <<>>, a |-> NoArg]
Cons(x) == [k |-> "cons", x |-> x, s |-> <<>>, a |-> NoArg]
SetU(a) == [k |-> "setU", x |-> 0, s |-> <<>>, a |-> a]
UndoU(x) == [k |-> "undoU", x |-> x, s |-> <<>>, a |-> NoArg]
RedoU(x) == [k |-> "redoU", x |-> x, s |-> <<>>, a |-> NoArg]

\* What running one update yields: the cell's new value h, and the updates
\* the callback handed to the other cells' setters while it ran.
Out(h, toPast, toPresent, toFuture) ==
  [h |-> h, past |-> toPast, present |-> toPresent, future |-> toFuture]
Pure(h) == Out(h, <<>>, <<>>, <<>>)

\* faulty variant: the new entry is not appended
pushPastDropsNew(x, prev) == trimmedPast(prev)

\* (prev) => { const updated = [...prev, x]; return trimmed }
pushPast(x, prev) == trimmedPast(Append(prev, x))

\* faulty variant: [...f, present] for [present, ...f]
consFutureAtEnd(x, f) == Append(f, x)

\* (f) => [present, ...f]
consFuture(x, f) == <<x>> \o f

\* faulty variant: future is cleared before the predicate is asked
setPresentUpdaterClearsFirst(newState, prevPresent) ==
  LET next == Resolve(newState, prevPresent)
  IN IF ~shouldAddToHistory(prevPresent, next)
     THEN Out(prevPresent, <<>>, <<>>, <<SeqVal(<<>>)>>)
     ELSE Out(next, <<Push(prevPresent)>>, <<>>, <<SeqVal(<<>>)>>)

\* updater variant, set: the callback given to setPresent
setPresentUpdater(newState, prevPresent) ==
  LET next == Resolve(newState, prevPresent)
  IN IF ~shouldAddToHistory(prevPresent, next)
     THEN Pure(prevPresent)
     ELSE Out(next, <<Push(prevPresent)>>, <<>>, <<SeqVal(<<>>)>>)

\* faulty variant: the restored state, not the present, is put in future
undoPastUpdaterStale(present, prevPast) ==
  IF Len(prevPast) = 0
  THEN Pure(prevPast)
  ELSE LET newPast == SliceButLast(prevPast)
           lastState == prevPast[Len(prevPast)]
       IN Out(newPast, <<>>, <<Val(lastState)>>, <<Cons(lastState)>>)

\* updater variant, undo: the callback given to setPast; present is the
\* value captured by the render that created undo
undoPastUpdater(present, prevPast) ==
  IF Len(prevPast) = 0
  THEN Pure(prevPast)
  ELSE LET newPast == SliceButLast(prevPast)
           lastState == prevPast[Len(prevPast)]
       IN Out(newPast, <<>>, <<Val(lastState)>>, <<Cons(present)>>)

\* faulty variant: the restored state, not the present, is pushed onto past
redoFutureUpdaterStale(present, prevFuture) ==
  IF Len(prevFuture) = 0
  THEN Pure(prevFuture)
  ELSE LET nextState == Head(prevFuture)
           restFuture == Tail(prevFuture)
       IN Out(restFuture, <<Push(nextState)>>, <<Val(nextState)>>, <<>>)

\* updater variant, redo: the callback given to setFuture
redoFutureUpdater(present, prevFuture) ==
  IF Len(prevFuture) = 0
  THEN Pure(prevFuture)
  ELSE LET nextState == Head(prevFuture)
           restFuture == Tail(prevFuture)
       IN Out(restFuture, <<Push(present)>>, <<Val(nextState)>>, <<>>)

\* basicStateReducer: one update applied to a cell holding h
Reduce(u, h) ==
  CASE u.k = "val" -> Pure(u.x)
    [] u.k = "seq" -> Pure(u.s)
    [] u.k = "push" -> Pure(pushPast(u.x, h))
    [] u.k = "cons" -> Pure(consFuture(u.x, h))
    [] u.k = "setU" -> setPresentUpdater(u.a, h)
    [] u.k = "undoU" -> undoPastUpdater(u.x, h)
    [] u.k = "redoU" -> redoFutureUpdater(u.x, h)

\* A cell's queue applied in order to its value; the updates its callbacks
\* hand to the other cells are collected in call order.
RECURSIVE Process(_, _)
Process(h, queue) ==
  IF Len(queue) = 0
  THEN Pure(h)
  ELSE LET r == Reduce(Head(queue), h)
           rest == Process(r.h, Tail(queue))
       IN Out(rest.h, r.past \o rest.past, r.present \o rest.present,
              r.future \o rest.future)

EmptyQ == [past |-> <<>>, present |-> <<>>, future |-> <<>>, lanes |-> FALSE]

\* A render: the three useState calls run in hook order.  An update that a
\* callback hands to a cell that has not run yet is applied in the same
\* pass; one handed to a cell that has already run makes React render the
\* component again, where it is applied.
Render(c, pending) ==
  LET rPast == Process(c.past, pending.past)
      rPresent == Process(c.present, pending.present \o rPast.present)
      rFuture == Process(c.future,
                         pending.future \o rPast.future \o rPresent.future)
      again == Process(rPast.h, rPresent.past \o rFuture.past)
      againPresent == Process(rPresent.h, rFuture.present)
  IN [past |-> again.h, present |-> againPresent.h, future |-> rFuture.h]

\* ------------------------------------------------------------- calls
\* pending with more updates appended; lanes: a render has been scheduled
Enqueue(pending, toPast, toPresent, toFuture, scheduled) ==
  [past |-> pending.past \o toPast,
   present |-> pending.present \o toPresent,
   future |-> pending.future \o toFuture,
   lanes |-> pending.lanes \/ scheduled]

\* A setter called with an updater callback u for one cell.  While the
\* component has no scheduled work React may run the callback at once
\* (eager) and queue its result; otherwise the callback is queued and runs
\* in the next render.  Whether React takes the eager path with no work
\* scheduled depends on its internal bookkeeping: both outcomes are kept.
Dispatch(c, pending, cell, u, eager) ==
  IF eager /\ ~pending.lanes
  THEN LET r == Reduce(u, c[cell])
           own == IF cell = "present" THEN <<Val(r.h)>> ELSE <<SeqVal(r.h)>>
           scheduled == r.h # c[cell] \/ Len(r.past) > 0
                          \/ Len(r.present) > 0 \/ Len(r.future) > 0
       IN Enqueue(pending,
                  r.past \o (IF cell = "past" THEN own ELSE <<>>),
                  r.present \o (IF cell = "present" THEN own ELSE <<>>),
                  r.future \o (IF cell = "future" THEN own ELSE <<>>),
                  scheduled)
  ELSE Enqueue(pending,
               IF cell = "past" THEN <<u>> ELSE <<>>,
               IF cell = "present" THEN <<u>> ELSE <<>>,
               IF cell = "future" THEN <<u>> ELSE <<>>,
               TRUE)

\* updater variant (first definition): c is what the last render showed
setUpdater(c, pending, newState, eager) ==
  Dispatch(c, pending, "present", SetU(newState), eager)

undoUpdater(c, pending, eager) ==
  Dispatch(c, pending, "past", UndoU(c.present), eager)

redoUpdater(c, pending, eager) ==
  Dispatch(c, pending, "future", RedoU(c.present), eager)

\* faulty variant: setFuture([]) forgotten
setClosureKeepsFuture(c, pending, newState) ==
  LET next == Resolve(newState, c.present)
  IN IF ~shouldAddToHistory(c.present, next)
     THEN Enqueue(pending, <<>>, <<Val(next)>>, <<>>, TRUE)
     ELSE LET newPast == Append(c.past, c.present)
          IN Enqueue(pending, <<SeqVal(trimmedPast(newPast))>>,
                     <<Val(next)>>, <<>>, TRUE)

\* faulty variant: the empty-past guard comes after the push onto future
undoClosureNoGuard(c, pending) ==
  IF Len(c.past) = 0
  THEN Enqueue(pending, <<>>, <<>>, <<Cons(c.present)>>, TRUE)
  ELSE LET newPast == SliceButLast(c.past)
           lastState == c.past[Len(c.past)]
       IN Enqueue(pending, <<SeqVal(newPast)>>, <<Val(lastState)>>,
                  <<Cons(c.present)>>, TRUE)

\* faulty variant: setPast(trimmedPast) forgotten
redoClosureNoPush(c, pending) ==
  IF Len(c.future) = 0
  THEN pending
  ELSE LET nextState == Head(c.future)
           restFuture == Tail(c.future)
       IN Enqueue(pending, <<>>, <<Val(nextState)>>,
                  <<SeqVal(restFuture)>>, TRUE)

\* closure variant (second definition)
setClosure(c, pending, newState) ==
  LET next == Resolve(newState, c.present)
  IN IF ~shouldAddToHistory(c.present, next)
     THEN Enqueue(pending, <<>>, <<Val(next)>>, <<>>, TRUE)
     ELSE LET newPast == Append(c.past, c.present)
          IN Enqueue(pending, <<SeqVal(trimmedPast(newPast))>>,
                     <<Val(next)>>, <<SeqVal(<<>>)>>, TRUE)

\* faulty variant: the oldest entry of past, not the last, is restored
undoClosureOldest(c, pending) ==
  IF Len(c.past) = 0
  THEN pending
  ELSE LET newPast == SliceButLast(c.past)
           lastState == c.past[1]
       IN Enqueue(pending, <<SeqVal(newPast)>>, <<Val(lastState)>>,
                  <<Cons(c.present)>>, TRUE)

undoClosure(c, pending) ==
  IF Len(c.past) = 0
  THEN pending
  ELSE LET newPast == SliceButLast(c.past)
           lastState == c.past[Len(c.past)]
       IN Enqueue(pending, <<SeqVal(newPast)>>, <<Val(lastState)>>,
                  <<Cons(c.present)>>, TRUE)

redoClosure(c, pending) ==
  IF Len(c.future) = 0
  THEN pending
  ELSE LET nextState == Head(c.future)
           restFuture == Tail(c.future)
           newPast == Append(c.past, c.present)
       IN Enqueue(pending, <<SeqVal(trimmedPast(newPast))>>,
                  <<Val(nextState)>>, <<SeqVal(restFuture)>>, TRUE)

\* One call of set, undo or redo on implementation i
Call(i, c, pending, o, eager) ==
  IF i = "updater"
  THEN CASE o.op = "set" -> setUpdater(c, pending, o.arg, eager)
         [] o.op = "undo" -> undoUpdater(c, pending, eager)
         [] o.op = "redo" -> redoUpdater(c, pending, eager)
  ELSE CASE o.op = "set" -> setClosure(c, pending, o.arg)
         [] o.op = "undo" -> undoClosure(c, pending)
         [] o.op = "redo" -> redoClosure(c, pending)

\* act(() => call): the call, then the render it schedules
Act(i, c, o, eager) == Render(c, Call(i, c, EmptyQ, o, eager))

\* the derived reads
canUndo(c) == Len(c.past) > 0
canRedo(c) == Len(c.future) > 0

\* ------------------------------------------------------- state machine
\* faulty variant: past starts with the initial value in it
FreshWithPast(v) == [past |-> <<v>>, present |-> v, future |-> <<>>]

Fresh(v) == [past |-> <<>>, present |-> v, future |-> <<>>]

Overflow == <<[op |-> "more", arg |-> NoArg]>>
Record(h, o) ==
  IF h = Overflow \/ Len(h) >= MaxHist THEN Overflow ELSE Append(h, o)

Config ==
  /\ limit \in Limits
  /\ pred \in Preds
  /\ initialValue \in Vals
  /\ st = [i \in Impl |-> Fresh(initialValue)]
  /\ q = [i \in Impl |-> EmptyQ]
  /\ batch = <<>>
  /\ hist = <<>>
  /\ last = [op |-> "none", arg |-> NoArg]

Init ==
  /\ Config
  /\ impls = Impl

\* One call, rendered before the next one is made
Committed(o) ==
  \E eager \in BOOLEAN :
    st' = [i \in Impl |-> IF i \in impls THEN Act(i, st[i], o, eager)
                                         ELSE st[i]]

Set(newState) ==
  /\ Committed(OpSet(newState))
  /\ hist' = Record(hist, OpSet(newState))
  /\ last' = OpSet(newState)
  /\ UNCHANGED <<limit, pred, initialValue, impls, q, batch>>

Undo ==
  /\ Committed(OpUndo)
  /\ hist' = Record(hist, OpUndo)
  /\ last' = OpUndo
  /\ UNCHANGED <<limit, pred, initialValue, impls, q, batch>>

Redo ==
  /\ Committed(OpRedo)
  /\ hist' = Record(hist, OpRedo)
  /\ last' = OpRedo
  /\ UNCHANGED <<limit, pred, initialValue, impls, q, batch>>

Next ==
  \/ \E newState \in Args : Set(newState)
  \/ Undo
  \/ Redo

Spec == Init /\ [][Next]_vars

\* ------------------------------------------------------------ batches
\* Several calls made before React renders: each call sees the callbacks,
\* and so the past/present/future, of the last render.
Room == \A i \in impls : Len(st[i].future) < MaxFuture

Queued(o) ==
  /\ Len(batch) < MaxBatch
  /\ Room
  /\ \E eager \in BOOLEAN :
       q' = [i \in Impl |-> IF i \in impls
                             THEN Call(i, st[i], q[i], o, eager)
                             ELSE q[i]]
  /\ batch' = Append(batch, o)
  /\ UNCHANGED <<limit, pred, initialValue, impls, st, hist, last>>

CallSet(newState) ==
  /\ Queued(OpSet(newState))

CallUndo ==
  /\ Queued(OpUndo)

CallRedo ==
  /\ Queued(OpRedo)

Flush ==
  /\ Len(batch) > 0
  /\ st' = [i \in Impl |-> Render(st[i], q[i])]
  /\ q' = [i \in Impl |-> EmptyQ]
  /\ batch' = <<>>
  /\ UNCHANGED <<limit, pred, initialValue, impls, hist, last>>

NextBatch ==
  \/ \E newState \in Args : CallSet(newState)
  \/ CallUndo
  \/ CallRedo
  \/ Flush

\* one implementation at a time
InitBatch ==
  /\ Config
  /\ impls \in {{i} : i \in Impl}

SpecBatch == InitBatch /\ [][NextBatch]_vars

\* ---------------------------------------------------------- limit = 0
\* The hook built with options.limit = 0.  Nothing then bounds past, so
\* the search stops recording once past holds MaxPast entries.
InitZero ==
  /\ limit = 0
  /\ pred \in Preds
  /\ initialValue \in Vals
  /\ impls = Impl
  /\ st = [i \in Impl |-> Fresh(initialValue)]
  /\ q = [i \in Impl |-> EmptyQ]
  /\ batch = <<>>
  /\ hist = <<>>
  /\ last = [op |-> "none", arg |-> NoArg]

PastRoom == \A i \in impls : Len(st[i].past) < MaxPast

SetZero(newState) ==
  /\ PastRoom
  /\ Set(newState)

NextZero ==
  \/ \E newState \in Args : SetZero(newState)
  \/ Undo
  \/ Redo

SpecZero == InitZero /\ [][NextZero]_vars

\* ------------------------------------------------------------- claims
\* the last n entries of s (all of s when it has no more than n)
LastN(s, n) ==
  IF Len(s) <= n THEN s ELSE SubSeq(s, Len(s) - n + 1, Len(s))

\* the value a set call proposes, given the present it is resolved against
Candidate(o, present) == Resolve(o.arg, present)

\* Whether a committed call runs its callback eagerly or in the render
\* makes no difference to what the render shows.
EagerIrrelevantWhenCommitted ==
  \A i \in impls : \A o \in Ops :
    Act(i, st[i], o, TRUE) = Act(i, st[i], o, FALSE)

\* Batched calls keep past within the limit too.
PastBoundedInBatches ==
  \A i \in impls : Len(st[i].past) <= limit

\* C1: a set call whose candidate shouldAddToHistory rejects makes the
\* candidate the present and leaves past and future as they were, in both
\* implementations.
C1_RejectedSetReplacesPresent ==
  [][\A i \in impls :
       (last'.op = "set"
          /\ ~shouldAddToHistory(st[i].present, Candidate(last', st[i].present)))
       => st'[i] = [st[i] EXCEPT !.present = Candidate(last', st[i].present)]
    ]_vars

\* C2: past never holds more than limit entries, and a call that changes
\* past either removes its last entry (undo) or appends the present and
\* then drops entries from the front only, and only down to limit.
C2_PastBoundedOldestEvicted ==
  [][\A i \in impls :
       /\ Len(st[i].past) <= limit
       /\ Len(st'[i].past) <= limit
       /\ \/ st'[i].past = st[i].past
          \/ st'[i].past = SubSeq(st[i].past, 1, Len(st[i].past) - 1)
          \/ st'[i].past = LastN(Append(st[i].past, st[i].present), limit)
    ]_vars

\* C2 witness: with limit 1, a second recorded set has evicted the oldest
\* entry (the initial 0) and kept the newer one.
C2_Witness ==
  /\ limit = 1 /\ pred = "always" /\ initialValue = 0
  /\ hist = <<OpSet(Value(1)), OpSet(Value(2))>>
  /\ \A i \in impls : st[i].past = <<1>> /\ st[i].present = 2

\* C3: a set call whose candidate shouldAddToHistory accepts makes past the
\* old past with the old present appended, cut from the front to its last
\* limit entries, and makes the candidate the present.
C3_RecordedSetPushesPresent ==
  [][\A i \in impls :
       (last'.op = "set"
          /\ shouldAddToHistory(st[i].present, Candidate(last', st[i].present)))
       => /\ st'[i].past = LastN(Append(st[i].past, st[i].present), limit)
          /\ st'[i].present = Candidate(last', st[i].present)
    ]_vars

\* C3 witness: limit 2, three recorded sets: the third one pushed 2 and
\* evicted the initial 0.
C3_Witness ==
  /\ limit = 2 /\ pred = "neq" /\ initialValue = 0
  /\ hist = <<OpSet(Value(1)), OpSet(Value(2)), OpSet(Updater("inc"))>>
  /\ \A i \in impls : st[i].past = <<1, 2>> /\ st[i].present = 0

\* C4 (as stated): from a fresh store, after set(a); undo(); set(b), for
\* all values a and b, canRedo is false.
C4_SetUndoSetAnyValues ==
  \A a, b \in Vals :
    hist = <<OpSet(Value(a)), OpUndo, OpSet(Value(b))>>
    => \A i \in impls : ~canRedo(st[i])

\* C4 (amended): every set call that records a new present leaves future
\* empty; so after set(a); undo(); set(b) canRedo is false whenever
\* shouldAddToHistory accepted b.
C4_RecordedSetClearsFuture ==
  [][\A i \in impls :
       (last'.op = "set"
          /\ shouldAddToHistory(st[i].present, Candidate(last', st[i].present)))
       => (st'[i].future = <<>> /\ ~canRedo(st'[i]))
    ]_vars

\* C4 witness: set(1); undo(); set(2) from 0 has discarded the future <<1>>.
C4_Witness ==
  /\ pred = "neq" /\ initialValue = 0
  /\ hist = <<OpSet(Value(1)), OpUndo, OpSet(Value(2))>>
  /\ \A i \in impls : st[i] = [past |-> <<0>>, present |-> 2, future |-> <<>>]

\* C5: undo with a non-empty past removes the last entry of past and makes
\* it the present, and puts the old present at the front of future; the
\* other entries of past and future stay as they were.
C5_UndoMovesPresentToFuture ==
  [][\A i \in impls :
       (last'.op = "undo" /\ Len(st[i].past) > 0)
       => /\ st'[i].past = SubSeq(st[i].past, 1, Len(st[i].past) - 1)
          /\ st'[i].present = st[i].past[Len(st[i].past)]
          /\ st'[i].future = <<st[i].present>> \o st[i].future
          /\ Len(st'[i].past) = Len(st[i].past) - 1
          /\ Len(st'[i].future) = Len(st[i].future) + 1
    ]_vars

\* C5 witness: after set(1); set(2) from 0, the second of two undos has put
\* 1 in front of the 2 already in future.
C5_Witness ==
  /\ initialValue = 0 /\ last = OpUndo
  /\ \A i \in impls :
       st[i] = [past |-> <<>>, present |-> 0, future |-> <<1, 2>>]

\* C6: redo with a non-empty future removes the first entry of future and
\* makes it the present, and appends the old present to past, cut from the
\* front to limit entries; the rest of future keeps its order.
C6_RedoMovesPresentToPast ==
  [][\A i \in impls :
       (last'.op = "redo" /\ Len(st[i].future) > 0)
       => /\ st'[i].present = Head(st[i].future)
          /\ st'[i].future = Tail(st[i].future)
          /\ st'[i].past = LastN(Append(st[i].past, st[i].present), limit)
    ]_vars

\* C6 witness: after set(1); set(2); undo(); undo() from 0, a redo has made
\* 1 the present and left 2 in future.
C6_Witness ==
  /\ initialValue = 0 /\ last = OpRedo
  /\ \A i \in impls :
       st[i] = [past |-> <<0>>, present |-> 1, future |-> <<2>>]

\* C7: undo with canUndo false, and redo with canRedo false, change
\* nothing: past, present and future (so state, canUndo, canRedo) stay.
C7_EmptyUndoRedoNoOp ==
  [][\A i \in impls :
       /\ (last'.op = "undo" /\ ~canUndo(st[i])) => st'[i] = st[i]
       /\ (last'.op = "redo" /\ ~canRedo(st[i])) => st'[i] = st[i]
    ]_vars

\* C7 witness: undo() on the fresh store, set(1), then redo() with an empty
\* future: the state is the one set(1) left.
C7_Witness ==
  /\ initialValue = 0 /\ pred = "neq"
  /\ hist = <<OpUndo, OpSet(Value(1)), OpRedo>>
  /\ \A i \in impls : st[i] = [past |-> <<0>>, present |-> 1, future |-> <<>>]

\* the calls of a batch applied one after another, each one rendered before
\* the next is made
RECURSIVE ApplyAll(_, _, _)
ApplyAll(i, c, ops) ==
  IF Len(ops) = 0 THEN c
  ELSE ApplyAll(i, Act(i, c, Head(ops), FALSE), Tail(ops))

\* C8: what a render shows after a batch of calls is what the same calls
\* give when applied one after another to the state before the batch.
C8_BatchEqualsSequence ==
  [][(Len(batch) > 0 /\ Len(batch') = 0)
       => \A i \in impls : st'[i] = ApplyAll(i, st[i], batch)
    ]_vars

\* C9: set(f) and set(g) batched from present p leave present g(f(p)).
C9_BatchedUpdatersCompose ==
  [][\A f, g \in Fns :
       (batch = <<OpSet(Updater(f)), OpSet(Updater(g))>> /\ Len(batch') = 0)
       => \A i \in impls :
            st'[i].present = ApplyFn(g, ApplyFn(f, st[i].present))
    ]_vars

\* C10: in every reachable state, a recorded set(x) followed by undo()
\* gives back the present p and leaves x first in future, and a redo()
\* after that makes x the present and past what it was right after the set.
C10_SetUndoRedoRoundTrip ==
  \A i \in impls : \A a \in Args : \A eager \in BOOLEAN :
    LET s0 == st[i]
        x == Resolve(a, s0.present)
        s1 == Act(i, s0, OpSet(a), eager)
        s2 == Act(i, s1, OpUndo, eager)
        s3 == Act(i, s2, OpRedo, eager)
    IN shouldAddToHistory(s0.present, x)
       => /\ s1.present = x
          /\ s2.present = s0.present
          /\ Len(s2.future) > 0 /\ Head(s2.future) = x
          /\ s3.present = x
          /\ s3.past = s1.past

\* C10 witness: set(2); undo(); redo() from 0: the present is 2 again and
\* past is <<0>>, as right after the set.
C10_Witness ==
  /\ initialValue = 0 /\ pred = "neq"
  /\ hist = <<OpSet(Value(2)), OpUndo, OpRedo>>
  /\ \A i \in impls : st[i] = [past |-> <<0>>, present |-> 2, future |-> <<>>]

Min(a, b) == IF a < b THEN a ELSE b

\* h is n set calls followed by k undo calls
SetsThenUndos(h, n, k) ==
  /\ Len(h) = n + k
  /\ \A j \in 1..n : h[j].op = "set"
  /\ \A j \in (n + 1)..(n + k) : h[j].op = "undo"

\* how many undo() calls in a row find canUndo true, each one rendered
\* before the next (at most fuel of them are tried)
RECURSIVE UndoCount(_, _, _)
UndoCount(i, c, fuel) ==
  IF fuel = 0 \/ ~canUndo(c) THEN 0
  ELSE 1 + UndoCount(i, Act(i, c, OpUndo, FALSE), fuel - 1)

\* the state after undo() is repeated until canUndo is false
RECURSIVE UndoAll(_, _, _)
UndoAll(i, c, fuel) ==
  IF fuel = 0 \/ ~canUndo(c) THEN c
  ELSE UndoAll(i, Act(i, c, OpUndo, FALSE), fuel - 1)

\* C11: with a predicate that is always true, after n >= 1 set calls on a
\* fresh store canUndo is true and exactly min(n, limit) undo() calls in a
\* row succeed: after k undos canUndo is still true iff k < min(n, limit).
C11_UndoableStepsAreMinOfCallsAndLimit ==
  \A i \in impls : \A n \in 1..Len(hist) :
    (pred = "always" /\ SetsThenUndos(hist, n, Len(hist) - n))
    => LET k == Len(hist) - n
       IN /\ canUndo(st[i]) <=> k < Min(n, limit)
          /\ k = 0 => canUndo(st[i])
          /\ k <= Min(n, limit)
               => UndoCount(i, st[i], limit + 1) = Min(n, limit) - k

\* C11 witness: limit 1, two sets, then one undo: min(2, 1) = 1 undo has
\* succeeded and canUndo is false.
C11_Witness ==
  /\ limit = 1 /\ pred = "always" /\ initialValue = 0
  /\ hist = <<OpSet(Value(1)), OpSet(Value(2)), OpUndo>>
  /\ \A i \in impls : st[i] = [past |-> <<>>, present |-> 1, future |-> <<2>>]

\* the value of the j-th set call of h (the initial value for j = 0)
SetValue(h, j) == IF j = 0 THEN initialValue ELSE h[j].arg.v

\* the first n calls of h are set calls with plain values, each recorded
RecordedSets(h, n) ==
  /\ Len(h) >= n
  /\ \A j \in 1..n :
       /\ h[j].op = "set" /\ h[j].arg.fn = "none"
       /\ shouldAddToHistory(SetValue(h, j - 1), SetValue(h, j))

\* C12: from a fresh store with initial value v0, after n > limit recorded
\* sets of v1..vn the first undo() shows v(n-1), the k-th shows v(n-k), and
\* undoing until canUndo is false takes limit undos and ends at v(n-limit),
\* the oldest retained value: the entry for v0 has been evicted.
C12_UndoReachesOldestRetained ==
  \A i \in impls : \A n \in 1..Len(hist) :
    (n > limit /\ RecordedSets(hist, n)
       /\ SetsThenUndos(hist, n, Len(hist) - n))
    => LET k == Len(hist) - n
       IN /\ k <= limit => st[i].present = SetValue(hist, n - k)
          /\ k = 0 =>
               /\ Act(i, st[i], OpUndo, FALSE).present = SetValue(hist, n - 1)
               /\ UndoCount(i, st[i], limit + 1) = limit
               /\ UndoAll(i, st[i], limit + 1).present
                    = SetValue(hist, n - limit)

\* C12 witness: limit 1, initial 0, set(2); set(1); undo(): the undo shows
\* 2 and nothing is left to undo, so 0 cannot come back.
C12_Witness ==
  /\ limit = 1 /\ pred = "neq" /\ initialValue = 0
  /\ hist = <<OpSet(Value(2)), OpSet(Value(1)), OpUndo>>
  /\ \A i \in impls : st[i] = [past |-> <<>>, present |-> 2, future |-> <<1>>]

\* C13: a freshly constructed store shows the initial value, with past and
\* future empty, so canUndo and canRedo are false, whatever the options.
C13_FreshStore ==
  Len(hist) = 0
  => \A i \in impls :
       /\ st[i].present = initialValue
       /\ st[i].past = <<>> /\ st[i].future = <<>>
       /\ ~canUndo(st[i]) /\ ~canRedo(st[i])

\* C13 witness: a fresh store built with initial value 2, limit 2 and a
\* predicate that is never true.
C13_Witness ==
  /\ Len(hist) = 0 /\ last.op = "none"
  /\ initialValue = 2 /\ limit = 2 /\ pred = "never"
  /\ \A i \in impls : st[i].present = 2 /\ ~canUndo(st[i]) /\ ~canRedo(st[i])

\* C15: with the default predicate, a set whose candidate equals the
\* present (a value, or an updater returning its argument) changes nothing:
\* past, present and future stay, and a pending future is not cleared.
C15_SetSameValueIsNoOp ==
  [][\A i \in impls :
       (pred = "neq" /\ last'.op = "set"
          /\ Candidate(last', st[i].present) = st[i].present)
       => st'[i] = st[i]
    ]_vars

\* C15 witness: set(1); undo(); set(x => x) from 0: future still holds 1.
C15_Witness ==
  /\ pred = "neq" /\ initialValue = 0
  /\ hist = <<OpSet(Value(1)), OpUndo, OpSet(Updater("keep"))>>
  /\ \A i \in impls : st[i] = [past |-> <<>>, present |-> 0, future |-> <<1>>]

\* C16: with each call rendered before the next, past and future together
\* never hold more than limit entries; so future holds at most limit, and
\* a redo never finds past full (its eviction branch is not taken).
C16_PastPlusFutureBounded ==
  \A i \in impls :
    /\ Len(st[i].past) + Len(st[i].future) <= limit
    /\ Len(st[i].future) <= limit
    /\ canRedo(st[i]) => Len(Append(st[i].past, st[i].present)) <= limit

\* C16 witness: limit 2, with one entry in past and one in future.
C16_Witness ==
  /\ limit = 2 /\ initialValue = 0
  /\ hist = <<OpSet(Value(1)), OpSet(Value(2)), OpUndo>>
  /\ \A i \in impls : st[i] = [past |-> <<0>>, present |-> 1, future |-> <<2>>]

\* C17: in every reachable state with canUndo, undo() then redo() gives
\* the state back, and with canRedo, redo() then undo() gives it back:
\* past, present and future are all restored.
C17_UndoRedoInverse ==
  \A i \in impls : \A eager \in BOOLEAN :
    /\ canUndo(st[i])
         => Act(i, Act(i, st[i], OpUndo, eager), OpRedo, eager) = st[i]
    /\ canRedo(st[i])
         => Act(i, Act(i, st[i], OpRedo, eager), OpUndo, eager) = st[i]

\* C17 witness: limit 1 with past full: undo() then redo() has restored
\* past <<1>>, present 2 (the redo pushed onto an emptied past).
C17_Witness ==
  /\ limit = 1 /\ initialValue = 0 /\ pred = "neq" /\ last = OpRedo
  /\ hist = Overflow
  /\ \A i \in impls : st[i] = [past |-> <<1>>, present |-> 2, future |-> <<>>]

\* the timeline: past, then the present, then future
Timeline(c) == c.past \o <<c.present>> \o c.future

\* C18: undo and redo leave the sequence past ++ <present> ++ future as it
\* was; they only move the present along it.
C18_UndoRedoKeepTimeline ==
  [][\A i \in impls :
       (last'.op \in {"undo", "redo"}) => Timeline(st'[i]) = Timeline(st[i])
    ]_vars

\* C18 witness: the timeline 0, 1, 2 with the present moved back to its
\* end by a redo.
C18_Witness ==
  /\ limit = 2 /\ initialValue = 0 /\ last = OpRedo
  /\ \A i \in impls : st[i] = [past |-> <<0, 1>>, present |-> 2, future |-> <<>>]

\* C19: driven by the same calls, each rendered before the next, the two
\* definitions show the same past, present and future (so the same state,
\* canUndo and canRedo) after every call.
C19_DefinitionsEquivalent ==
  impls = Impl
  => /\ st["updater"] = st["closure"]
     /\ canUndo(st["updater"]) = canUndo(st["closure"])
     /\ canRedo(st["updater"]) = canRedo(st["closure"])

\* The two definitions differ only through a set that the predicate
\* rejects although it proposes a new value: never with the default
\* predicate or one that is always true.
EquivalentUnlessRejected ==
  (impls = Impl /\ pred # "never") => st["updater"] = st["closure"]

\* C14: with limit = 0 every entry pushed onto past is evicted at once, so
\* past is empty and canUndo is false in every reachable state.
C14_ZeroLimitDisablesUndo ==
  limit = 0 => \A i \in impls : st[i].past = <<>> /\ ~canUndo(st[i])

\* What the code does with limit = 0: updated.slice(-0) is the whole
\* array, so a recorded set keeps every entry of past.
ZeroLimitKeepsEverything ==
  [][\A i \in impls :
       (limit = 0 /\ last'.op = "set"
          /\ shouldAddToHistory(st[i].present, Candidate(last', st[i].present)))
       => st'[i].past = Append(st[i].past, st[i].present)
    ]_vars

====
